---- MODULE Spec2Model ----
(***************************************************************************)
(* Model of the genmsg relay (src/main.py): a FastAPI application with two *)
(* routes, POST /generate and GET /, each wrapped by a slowapi limiter     *)
(* keyed by get_real_client_ip.  Text that the code inspects character by  *)
(* character (headers, upstream content) is a sequence of one-character    *)
(* strings; text that is only compared (secret, prompt, history turns) is  *)
(* a TLA+ string.                                                          *)
(***************************************************************************)
EXTENDS Integers, Sequences, FiniteSets, TLC

VARIABLES now, storage, expirations, pending, last, recent

vars == <<now, storage, expirations, pending, last, recent>>

(***************************************************************************)
(* Bounds of the model.                                                    *)
(***************************************************************************)
\* number of clock steps a behaviour may take
MaxTicks == 3
\* seconds the clock advances per step
TickSeconds == 30
\* how far past its quota a counter is followed
MaxOver == 1
\* upstream calls that may be awaited at the same time
MaxPending == 2

(***************************************************************************)
(* Program constants.                                                      *)
(***************************************************************************)
\* main.py:16  API_SECRET = os.getenv("API_SECRET", "default_secret_change_me")
API_SECRET == "default_secret_change_me"
\* main.py:17  RATE_LIMIT = os.getenv("RATE_LIMIT", "10/minute"): the amount
GenerateQuota == 10
\* main.py:121 @limiter.limit("60/minute"): the amount
RootQuota == 60
\* "minute" in both limit strings: the window in seconds
WindowSeconds == 60
\* main.py:113
Placeholder == <<"N","o"," ","c","o","n","t","e","n","t"," ","g","e","n","e","r","a","t","e","d">>
\* main.py:52
AuthDetail == "Invalid authentication secret"

(***************************************************************************)
(* Text helpers: Python's str.strip, str.split(",")[0] and " ".join.       *)
(***************************************************************************)
Whitespace == {" ", "\t", "\n"}

RECURSIVE LStrip(_)
LStrip(s) ==
    IF s = <<>> THEN <<>>
    ELSE IF Head(s) \in Whitespace THEN LStrip(Tail(s)) ELSE s

RECURSIVE RStrip(_)
RStrip(s) ==
    IF s = <<>> THEN <<>>
    ELSE IF s[Len(s)] \in Whitespace THEN RStrip(SubSeq(s, 1, Len(s) - 1)) ELSE s

\* str.strip()
Strip(s) == RStrip(LStrip(s))

\* s.split(",")[0]: the characters before the first comma
RECURSIVE FirstField(_)
FirstField(s) ==
    IF s = <<>> THEN <<>>
    ELSE IF Head(s) = "," THEN <<>> ELSE <<Head(s)>> \o FirstField(Tail(s))

\* str.split(): the maximal runs of characters that are not whitespace
RECURSIVE Words(_)
Words(s) ==
    LET t == LStrip(s)
        ends == { k \in 1..Len(t) : t[k] \in Whitespace }
        n == IF ends = {} THEN Len(t) + 1
             ELSE CHOOSE k \in ends : \A j \in ends : k <= j
    IN IF t = <<>> THEN <<>>
       ELSE <<SubSeq(t, 1, n - 1)>> \o Words(SubSeq(t, n, Len(t)))

\* mutant: "".join(parts)
RECURSIVE Join_NoSeparator(_)
Join_NoSeparator(parts) ==
    IF parts = <<>> THEN <<>> ELSE parts[1] \o Join_NoSeparator(Tail(parts))

\* " ".join(parts)
RECURSIVE Join(_)
Join(parts) ==
    IF parts = <<>> THEN <<>>
    ELSE IF Len(parts) = 1 THEN parts[1]
    ELSE parts[1] \o <<" ">> \o Join(Tail(parts))

(***************************************************************************)
(* Client identity (main.py:20-31).  A header is [present, value];         *)
(* request.headers.get returns None for an absent header, and both None    *)
(* and "" are falsy.                                                       *)
(***************************************************************************)
NoHeader == [present |-> FALSE, value |-> <<>>]
Hdr(v) == [present |-> TRUE, value |-> v]

Truthy(h) == h.present /\ h.value # <<>>

\* slowapi.util.get_remote_address: the transport peer
get_remote_address(conn) == conn.peer

\* mutant: X-Real-IP is looked at before X-Forwarded-For
get_real_client_ip_RealIpFirst(conn) ==
    IF Truthy(conn.xri) THEN conn.xri.value
    ELSE IF Truthy(conn.xff) THEN Strip(FirstField(conn.xff.value))
    ELSE get_remote_address(conn)

get_real_client_ip(conn) ==
    IF Truthy(conn.xff) THEN Strip(FirstField(conn.xff.value))
    ELSE IF Truthy(conn.xri) THEN conn.xri.value
    ELSE get_remote_address(conn)

(***************************************************************************)
(* Request body (main.py:41-44).  A JSON value is [t, s, l]: t its type    *)
(* ("missing" for a key that is not there), s the string, l the list of    *)
(* strings.  A body is [json, prompt, conversation_history, secret]; json  *)
(* is FALSE when the payload does not parse as a JSON object.              *)
(***************************************************************************)
JMissing == [t |-> "missing", s |-> "", l |-> <<>>]
JNull == [t |-> "null", s |-> "", l |-> <<>>]
JStr(x) == [t |-> "str", s |-> x, l |-> <<>>]
JList(x) == [t |-> "list", s |-> "", l |-> x]

\* mutant: secret is optional
GenerationRequest_OptionalSecret(body) ==
    /\ body.json
    /\ body.prompt.t = "str"
    /\ body.conversation_history.t \in {"missing", "null", "list"}

\* the schema of GenerationRequest: prompt: str, secret: str (both required),
\* conversation_history: list[str] | None = None
GenerationRequest(body) ==
    /\ body.json
    /\ body.prompt.t = "str"
    /\ body.conversation_history.t \in {"missing", "null", "list"}
    /\ body.secret.t = "str"

\* body.conversation_history after parsing: None unless a list was sent
History(body) ==
    IF body.conversation_history.t = "list"
    THEN [none |-> FALSE, items |-> body.conversation_history.l]
    ELSE [none |-> TRUE, items |-> <<>>]

(***************************************************************************)
(* Access guard (main.py:51).                                              *)
(***************************************************************************)
\* mutant: the comparison never fails
SecretMatches_Always(secret) == secret = secret

SecretMatches(secret) == secret = API_SECRET

(***************************************************************************)
(* Message assembly (main.py:55-59).                                       *)
(***************************************************************************)
UserTurn(text) == [role |-> "user", content |-> text]

\* "if body.conversation_history:" is false for None and for []
HistoryTurns(h) ==
    IF ~h.none /\ h.items # <<>>
    THEN [i \in 1..Len(h.items) |-> UserTurn(h.items[i])]
    ELSE <<>>

\* mutant: the prompt is put before the history
AssembleMessages_PromptFirst(h, prompt) == <<UserTurn(prompt)>> \o HistoryTurns(h)

AssembleMessages(h, prompt) == Append(HistoryTurns(h), UserTurn(prompt))

(***************************************************************************)
(* Response normalization (main.py:67-115).  An attribute value is         *)
(* [none, s]; a content item is [kind, s, text, content, repr], kind       *)
(* "str" for a Python string, "obj" for an object, whose text and content  *)
(* are [has, val] (has: the attribute exists), "dict" for a mapping, which *)
(* has keys and no attributes; repr is str(item).                          *)
(***************************************************************************)
PyNone == [none |-> TRUE, s |-> <<>>]
PyVal(x) == [none |-> FALSE, s |-> x]
\* str(v)
PyStr(v) == IF v.none THEN <<"N","o","n","e">> ELSE v.s

NoAttr == [has |-> FALSE, val |-> PyNone]
Attr(v) == [has |-> TRUE, val |-> v]

\* hasattr(item, name): never true of a str or of a dict key
HasAttrText(item) == item.kind = "obj" /\ item.text.has
HasAttrContent(item) == item.kind = "obj" /\ item.content.has

\* mutant: the attribute content is tried before the attribute text
ItemText_ContentFirst(item) ==
    IF item.kind = "str" THEN item.s
    ELSE IF HasAttrContent(item) THEN PyStr(item.content.val)
    ELSE IF HasAttrText(item) THEN PyStr(item.text.val)
    ELSE item.repr

\* main.py:89-105; the branch on __dict__ (95-103) can only end in str(item):
\* an entry of an instance's __dict__ is an attribute, tried before it
ItemText(item) ==
    IF item.kind = "str" THEN item.s
    ELSE IF HasAttrText(item) THEN PyStr(item.text.val)
    ELSE IF HasAttrContent(item) THEN PyStr(item.content.val)
    ELSE item.repr

ItemParts(items) == [i \in 1..Len(items) |-> ItemText(items[i])]

\* main.py:80-108: content is [t, s, items, repr]
TextOutput(content) ==
    IF content.t = "none" THEN <<>>
    ELSE IF content.t = "str" THEN content.s
    ELSE IF content.t = "list" THEN Join(ItemParts(content.items))
    ELSE content.repr

\* mutant: the text is returned without the placeholder substitution
GeneratedText_NoPlaceholder(content) == Strip(TextOutput(content))

\* mutant: whitespace runs are collapsed and the text is cut after ten words
GeneratedText_Truncated(content) ==
    LET words == Words(TextOutput(content))
        kept == IF Len(words) <= 10 THEN words ELSE SubSeq(words, 1, 10)
    IN IF kept = <<>> THEN Placeholder ELSE Join(kept)

\* main.py:110-115
GeneratedText(content) ==
    LET text_output == Strip(TextOutput(content))
    IN IF text_output = <<>> THEN Placeholder ELSE text_output

(***************************************************************************)
(* Inputs.                                                                 *)
(***************************************************************************)
IpA == <<"a">>
IpB == <<"b">>

\* a connection is [xff, xri, peer]: X-Forwarded-For, X-Real-IP, peer address
Direct(ip) == [xff |-> NoHeader, xri |-> NoHeader, peer |-> ip]
Proxied(xff, xri, ip) == [xff |-> Hdr(xff), xri |-> Hdr(xri), peer |-> ip]
NoConn == [xff |-> NoHeader, xri |-> NoHeader, peer |-> <<>>]

\* one client, reached directly and through a proxy
Conns == { Direct(IpA), Proxied(<<" ", "a", ",", "b">>, IpB, IpB) }

\* two clients, each reached directly, through a proxy that sets
\* X-Forwarded-For, and through one that sets X-Real-IP only; an empty
\* header counts as absent
ClientConns ==
    { Direct(IpA),
      Direct(IpB),
      Proxied(<<" ", "a", ",", "b">>, IpB, IpB),
      Proxied(IpB, IpA, IpA),
      [xff |-> NoHeader, xri |-> Hdr(IpB), peer |-> IpA],
      [xff |-> Hdr(<<>>), xri |-> Hdr(IpA), peer |-> IpB],
      [xff |-> Hdr(<<>>), xri |-> Hdr(<<>>), peer |-> IpB] }

Identities == { get_real_client_ip(c) : c \in Conns \cup ClientConns }

WrongSecret == "wrong_secret"

Body(p, h, s) == [json |-> TRUE, prompt |-> p, conversation_history |-> h, secret |-> s]

NoBody == [json |-> FALSE, prompt |-> JMissing, conversation_history |-> JMissing,
           secret |-> JMissing]

Histories == { JMissing, JNull, JList(<<>>), JList(<<"A", "B">>), JList(<<"B", "A", "B">>) }

WellFormedBodies ==
    { Body(JStr(p), h, JStr(s)) :
        p \in {"C"}, h \in Histories, s \in {API_SECRET, WrongSecret} }

\* invalid JSON, missing prompt, missing secret, history not a list
MalformedBodies ==
    { NoBody,
      Body(JMissing, JList(<<>>), JStr(API_SECRET)),
      Body(JStr("C"), JList(<<>>), JMissing),
      Body(JStr("C"), JStr("not a list"), JStr(API_SECRET)),
      Body(JStr("C"), JStr("not a list"), JStr(WrongSecret)) }

Bodies == WellFormedBodies \cup MalformedBodies

NoContent == [t |-> "none", s |-> <<>>, items |-> <<>>, repr |-> <<>>]
StrContent(x) == [t |-> "str", s |-> x, items |-> <<>>, repr |-> <<>>]
ListContent(x) == [t |-> "list", s |-> <<>>, items |-> x, repr |-> <<>>]
OtherContent(r) == [t |-> "other", s |-> <<>>, items |-> <<>>, repr |-> r]

StrItem(x) ==
    [kind |-> "str", s |-> x, text |-> NoAttr, content |-> NoAttr, repr |-> x]
Item(text, content) ==
    [kind |-> "obj", s |-> <<>>, text |-> text, content |-> content,
     repr |-> <<"<", "o", ">">>]
DictItem ==
    [kind |-> "dict", s |-> <<>>, text |-> NoAttr, content |-> NoAttr,
     repr |-> <<"{", "}">>]

Hi == <<"H", "i">>
There == <<"t", "h", "e", "r", "e">>
\* fifteen words, some of them more than one whitespace character apart
Fifteen ==
    <<"a", " ", "b", " ", " ", "c", "\n", "d", " ", "e", " ", "f", " ", "g", "\t", " ",
      "h", " ", "i", " ", "j", " ", "k", " ", "l", " ", "m", " ", "n", " ", "o", "\n">>

Contents ==
    { NoContent,
      StrContent(<<>>),
      StrContent(<<" ", "\n">>),
      StrContent(<<" ", "o", " ", " ", "k", "\t">>),
      StrContent(Hi),
      StrContent(Fifteen),
      ListContent(<<>>),
      ListContent(<<Item(Attr(PyVal(Hi)), NoAttr), Item(Attr(PyVal(There)), NoAttr)>>),
      ListContent(<<Item(Attr(PyVal(There)), Attr(PyVal(Hi))), StrItem(Hi)>>),
      ListContent(<<Item(NoAttr, Attr(PyVal(Hi))), StrItem(<<" ">>), DictItem>>),
      ListContent(<<StrItem(<<" ">>), Item(Attr(PyVal(<<>>)), NoAttr)>>),
      ListContent(<<Item(Attr(PyNone), NoAttr), Item(NoAttr, NoAttr)>>),
      OtherContent(<<"4", "2">>) }

\* what the awaited upstream call can end in: an exception, or a response
\* with 0 or 1 choices, whose message may be None
Raise(d) == [kind |-> "raise", detail |-> d, choices |-> 0, message |-> FALSE,
             content |-> NoContent]
Response(n, m, c) == [kind |-> "response", detail |-> "", choices |-> n,
                      message |-> m, content |-> c]
NoReply == Raise("no reply")

Replies ==
    { Raise("Connection error."), Raise(""), Response(0, FALSE, NoContent),
      Response(1, FALSE, NoContent) }
    \cup { Response(1, TRUE, c) : c \in Contents }

(***************************************************************************)
(* Rate limiter (main.py:34, 48, 121): slowapi's Limiter with its default  *)
(* fixed-window strategy over in-memory storage.  A key is <<scope,        *)
(* identity>>; storage holds the counters and expirations the time each    *)
(* counter's window ends (0: no entry).                                    *)
(***************************************************************************)
Scopes == {"generate", "root"}
Keys == Scopes \X Identities

Quota(scope) == IF scope = "generate" THEN GenerateQuota ELSE RootQuota

\* mutant: the entry is dropped one clock step before its window ends
Expired_Early(key) == expirations[key] <= now + TickSeconds

\* the entry is dropped on read once its window has ended
Expired(key) == expirations[key] <= now

\* mutant: an increment made while an upstream call is awaited is lost
Incr_LostWhileAwaited(key) ==
    (IF Expired(key) THEN 0 ELSE storage[key])
      + (IF \E i \in DOMAIN pending : pending[i].busy THEN 0 ELSE 1)

\* mutant: the entry of a window that has ended is counted on
Incr_NoEviction(key) == storage[key] + 1

\* the counter after the read-time eviction and the increment
Incr(key) == (IF Expired(key) THEN 0 ELSE storage[key]) + 1

\* the window starts with the first hit counted in it
Expiry(key) == IF Incr(key) = 1 THEN now + WindowSeconds ELSE expirations[key]

\* mutant: the limiter lets one request too many through
Hit_OffByOne(key) == Incr(key) <= Quota(key[1]) + 1

\* mutant: the limiter never denies
Hit_Never(key) == Incr(key) >= 1

\* Limiter.hit: every check counts, and passes while the counter is within quota
Hit(key) == Incr(key) <= Quota(key[1])

\* mutant: a denied check is not counted
Counted_AllowedOnly(key) ==
    IF Hit(key)
    THEN /\ storage' = [storage EXCEPT ![key] = Incr(key)]
         /\ expirations' = [expirations EXCEPT ![key] = Expiry(key)]
    ELSE UNCHANGED <<storage, expirations>>

\* every check moves the counter, allowed or not
Counted(key) ==
    /\ storage' = [storage EXCEPT ![key] = Incr(key)]
    /\ expirations' = [expirations EXCEPT ![key] = Expiry(key)]

(***************************************************************************)
(* State.  pending[i] is an upstream call being awaited, with the number   *)
(* of times its handler has issued it.  last describes the latest handler  *)
(* step: the request and its connection, the stages it went through, the   *)
(* counter the limiter found stored, the messages handed to the upstream   *)
(* call, the upstream reply and the response sent (status 0: none yet).    *)
(* recent[id] holds the times of the latest well-formed /generate requests *)
(* of a client, GenerateQuota at most; only SpecWindow keeps it.           *)
(***************************************************************************)
Slots == 1..MaxPending

Idle == [busy |-> FALSE, ident |-> <<>>, calls |-> 0]

NoStep ==
    [op |-> "none", conn |-> NoConn, ident |-> <<>>, body |-> NoBody,
     valid |-> FALSE, limiter |-> "skipped", found |-> 0,
     secret |-> "skipped", called |-> FALSE,
     messages |-> <<>>, reply |-> NoReply, status |-> 0, text |-> <<>>,
     detail |-> ""]

Init ==
    /\ now = 0
    /\ storage = [k \in Keys |-> 0]
    /\ expirations = [k \in Keys |-> 0]
    /\ pending = [i \in Slots |-> Idle]
    /\ last = NoStep
    /\ recent = [id \in Identities |-> <<>>]

FreeSlots == { i \in Slots : ~pending[i].busy }

(***************************************************************************)
(* POST /generate (main.py:47-64) up to the awaited upstream call.  The    *)
(* body is validated before the endpoint is entered; the endpoint is the   *)
(* limiter's wrapper around generate_text.                                 *)
(***************************************************************************)
\* mutant: the secret is verified before the limiter is consulted
GenerateStage_GuardFirst(conn, body) ==
    IF ~GenerationRequest(body) THEN "invalid"
    ELSE IF ~SecretMatches(body.secret.s) THEN "unauthorized"
    ELSE IF ~Hit(<<"generate", get_real_client_ip(conn)>>) THEN "limited"
    ELSE "relay"

GenerateStage(conn, body) ==
    IF ~GenerationRequest(body) THEN "invalid"
    ELSE IF ~Hit(<<"generate", get_real_client_ip(conn)>>) THEN "limited"
    ELSE IF ~SecretMatches(body.secret.s) THEN "unauthorized"
    ELSE "relay"

StageStatus(stage) ==
    CASE stage = "invalid" -> 422
      [] stage = "limited" -> 429
      [] stage = "unauthorized" -> 401
      [] OTHER -> 0

Generate(conn, body) ==
    LET ident == get_real_client_ip(conn)
        key == <<"generate", ident>>
        stage == GenerateStage(conn, body)
        messages == IF stage = "relay"
                    THEN AssembleMessages(History(body), body.prompt.s)
                    ELSE <<>>
    IN /\ stage # "invalid" => Incr(key) <= GenerateQuota + MaxOver
       /\ stage = "relay" => FreeSlots # {}
       /\ IF stage = "invalid"
          THEN UNCHANGED <<storage, expirations>>
          ELSE Counted(key)
       /\ pending' =
            IF stage = "relay"
            THEN [pending EXCEPT ![CHOOSE i \in FreeSlots : \A j \in FreeSlots : i <= j] =
                    [busy |-> TRUE, ident |-> ident, calls |-> 1]]
            ELSE pending
       /\ last' =
            [op |-> "generate", conn |-> conn, ident |-> ident, body |-> body,
             valid |-> stage # "invalid",
             found |-> IF stage = "invalid" THEN 0 ELSE storage[key],
             limiter |-> IF stage = "invalid" THEN "skipped"
                         ELSE IF stage = "limited" THEN "deny" ELSE "allow",
             secret |-> IF stage \in {"invalid", "limited"} THEN "skipped"
                        ELSE IF stage = "unauthorized" THEN "bad" ELSE "ok",
             called |-> stage = "relay",
             messages |-> messages,
             reply |-> NoReply,
             status |-> StageStatus(stage),
             text |-> <<>>,
             detail |-> IF stage = "unauthorized" THEN AuthDetail ELSE ""]
       /\ UNCHANGED now

(***************************************************************************)
(* The awaited call ends and generate_text runs to its return or to the    *)
(* except clause (main.py:61-117).                                         *)
(***************************************************************************)
\* an exception is raised inside the try block: by the call, by choices[0]
\* on an empty list, or by message.content on a message that is None
Raises(reply) == reply.kind = "raise" \/ reply.choices = 0 \/ ~reply.message

\* str(e) of that exception
Failure(reply) ==
    IF reply.kind = "raise" THEN reply.detail
    ELSE IF reply.choices = 0 THEN "list index out of range"
    ELSE IF ~reply.message THEN "'NoneType' object has no attribute 'content'"
    ELSE ""

\* mutant: only an exception of the call itself is mapped to 500
RelayStatus_CallOnly(reply) == IF reply.kind = "raise" THEN 500 ELSE 200

\* main.py:115-117: the return value, or HTTPException(500, str(e))
RelayStatus(reply) == IF Raises(reply) THEN 500 ELSE 200

RelayText(reply) == IF Raises(reply) THEN <<>> ELSE GeneratedText(reply.content)

\* mutant: a call that failed is issued again, twice at most
Settled_Retry(call, reply) ==
    IF Raises(reply) /\ call.calls < 3 THEN [call EXCEPT !.calls = @ + 1] ELSE Idle

\* the handler returns or raises after its one awaited call: nothing stays awaited
Settled(call, reply) == Idle

UpstreamReturns(i, reply) ==
    /\ pending[i].busy
    /\ pending' = [pending EXCEPT ![i] = Settled(pending[i], reply)]
    /\ last' =
         [op |-> "relay", conn |-> NoConn, ident |-> pending[i].ident,
          body |-> NoBody, valid |-> TRUE, limiter |-> "allow", found |-> 0,
          secret |-> "ok", called |-> TRUE,
          messages |-> <<>>, reply |-> reply,
          status |-> RelayStatus(reply), text |-> RelayText(reply),
          detail |-> Failure(reply)]
    /\ UNCHANGED <<now, storage, expirations>>

(***************************************************************************)
(* GET / (main.py:120-123).                                                *)
(***************************************************************************)
\* mutant: both routes count on the counter of /generate
Root_SharedCounter(conn) ==
    LET ident == get_real_client_ip(conn)
        key == <<"generate", ident>>
    IN /\ Incr(key) <= RootQuota + MaxOver
       /\ Counted(key)
       /\ last' =
            [NoStep EXCEPT
               !.op = "root", !.conn = conn, !.ident = ident, !.valid = TRUE,
               !.found = storage[key],
               !.limiter = IF Hit(key) THEN "allow" ELSE "deny",
               !.status = IF Hit(key) THEN 200 ELSE 429]
       /\ UNCHANGED <<now, pending>>

Root(conn) ==
    LET ident == get_real_client_ip(conn)
        key == <<"root", ident>>
    IN /\ Incr(key) <= RootQuota + MaxOver
       /\ Counted(key)
       /\ last' =
            [NoStep EXCEPT
               !.op = "root", !.conn = conn, !.ident = ident, !.valid = TRUE,
               !.found = storage[key],
               !.limiter = IF Hit(key) THEN "allow" ELSE "deny",
               !.status = IF Hit(key) THEN 200 ELSE 429]
       /\ UNCHANGED <<now, pending>>

(***************************************************************************)
(* The caller goes away while the upstream call is awaited (main.py:61):   *)
(* the handler's task is cancelled at the await.  CancelledError is not an *)
(* Exception, so the except clause (main.py:116) is not entered and no     *)
(* response is made.  A server that lets the handler run on is the same    *)
(* behaviour as UpstreamReturns with its response lost.                    *)
(***************************************************************************)
\* mutant: the abandoned request is taken off its client's counter
Disconnect_Refund(i) ==
    /\ pending[i].busy
    /\ pending' = [pending EXCEPT ![i] = Idle]
    /\ last' =
         [NoStep EXCEPT
            !.op = "disconnect", !.ident = pending[i].ident, !.valid = TRUE,
            !.limiter = "allow", !.secret = "ok", !.called = TRUE]
    /\ storage' = [storage EXCEPT ![<<"generate", pending[i].ident>>] =
                     IF @ > 0 THEN @ - 1 ELSE 0]
    /\ UNCHANGED <<now, expirations>>

Disconnect(i) ==
    /\ pending[i].busy
    /\ pending' = [pending EXCEPT ![i] = Idle]
    /\ last' =
         [NoStep EXCEPT
            !.op = "disconnect", !.ident = pending[i].ident, !.valid = TRUE,
            !.limiter = "allow", !.secret = "ok", !.called = TRUE]
    /\ UNCHANGED <<now, storage, expirations>>

(***************************************************************************)
(* The clock.                                                              *)
(***************************************************************************)
Tick ==
    /\ now + TickSeconds <= MaxTicks * TickSeconds
    /\ now' = now + TickSeconds
    /\ UNCHANGED <<storage, expirations, pending, last>>

(***************************************************************************)
(* Spec: the /generate pipeline of one client, with every body and every   *)
(* upstream reply of the input sets.                                       *)
(***************************************************************************)
GenerateStep ==
    /\ \E conn \in Conns, body \in Bodies : Generate(conn, body)
    /\ UNCHANGED recent

UpstreamStep ==
    /\ \E i \in Slots, reply \in Replies : UpstreamReturns(i, reply)
    /\ UNCHANGED recent

TickStep ==
    /\ Tick
    /\ UNCHANGED recent

DisconnectStep ==
    /\ \E i \in Slots : Disconnect(i)
    /\ UNCHANGED recent

Next == GenerateStep \/ UpstreamStep \/ DisconnectStep \/ TickStep

Spec == Init /\ [][Next]_vars

(***************************************************************************)
(* SpecRoutes: both routes of one client, with one body of each kind and   *)
(* two upstream replies.                                                   *)
(***************************************************************************)
RouteBodies ==
    { Body(JStr("C"), JMissing, JStr(API_SECRET)),
      Body(JStr("C"), JMissing, JStr(WrongSecret)),
      Body(JStr("C"), JList(<<>>), JMissing) }

RouteReplies == { Raise("Connection error."), Response(1, TRUE, StrContent(Hi)) }

RoutesGenerateStep ==
    /\ \E body \in RouteBodies : Generate(Direct(IpA), body)
    /\ UNCHANGED recent

RoutesUpstreamStep ==
    /\ \E i \in Slots, reply \in RouteReplies : UpstreamReturns(i, reply)
    /\ UNCHANGED recent

RoutesRootStep ==
    /\ Root(Direct(IpA))
    /\ UNCHANGED recent

\* the clock is followed until the first window has ended
RoutesTickStep ==
    /\ now < WindowSeconds
    /\ Tick
    /\ UNCHANGED recent

NextRoutes ==
    RoutesGenerateStep \/ RoutesUpstreamStep \/ RoutesRootStep \/ RoutesTickStep

SpecRoutes == Init /\ [][NextRoutes]_vars

(***************************************************************************)
(* SpecWindow: the /generate route of one client, with the times of its    *)
(* latest well-formed requests kept in recent.                             *)
(***************************************************************************)
WindowBodies ==
    { Body(JStr("C"), JMissing, JStr(API_SECRET)),
      Body(JStr("C"), JList(<<>>), JMissing) }

\* the latest GenerateQuota entries of a sequence of times
Latest(times) ==
    IF Len(times) <= GenerateQuota THEN times
    ELSE SubSeq(times, Len(times) - GenerateQuota + 1, Len(times))

WindowGenerateStep ==
    \E conn \in Conns, body \in WindowBodies :
        /\ Generate(conn, body)
        /\ recent' =
             IF GenerationRequest(body)
             THEN [recent EXCEPT ![get_real_client_ip(conn)] = Latest(Append(@, now))]
             ELSE recent

WindowUpstreamStep ==
    /\ \E i \in Slots : UpstreamReturns(i, Response(1, TRUE, StrContent(Hi)))
    /\ UNCHANGED recent

NextWindow == WindowGenerateStep \/ WindowUpstreamStep \/ TickStep

SpecWindow == Init /\ [][NextWindow]_vars

(***************************************************************************)
(* SpecClients: the /generate route of two clients reached in several      *)
(* ways, with a body that is counted and never relayed.                    *)
(***************************************************************************)
ClientsGenerateStep ==
    /\ \E conn \in ClientConns :
          Generate(conn, Body(JStr("C"), JMissing, JStr(WrongSecret)))
    /\ UNCHANGED recent

NextClients == ClientsGenerateStep \/ TickStep

SpecClients == Init /\ [][NextClients]_vars

(***************************************************************************)
(* Vocabulary of the properties.                                           *)
(***************************************************************************)
GenKey(id) == <<"generate", id>>

\* the counter of a key inside its current window
InWindow(key) == IF now < expirations[key] THEN storage[key] ELSE 0

ReachedQuota(key) == InWindow(key) >= Quota(key[1])

\* this step handles a POST /generate request, described by last'
GenerateHandled ==
    /\ last'.op = "generate"
    /\ <<last, storage, expirations, pending>>' # <<last, storage, expirations, pending>>

\* this step issues an upstream call
CallIssued == \E i \in Slots : pending'[i].busy /\ ~pending[i].busy

\* the request of last' is well-formed / carries a secret that is not the configured one
WellFormed(b) ==
    /\ b.json
    /\ b.prompt.t = "str"
    /\ b.secret.t = "str"
    /\ b.conversation_history.t # "str"

BadSecret(b) == b.secret.t = "str" /\ b.secret.s # API_SECRET

AllSpace(x) == \A i \in 1..Len(x) : x[i] \in Whitespace

(***************************************************************************)
(* C1 (as stated): a well-formed POST /generate request whose secret is    *)
(* not the configured one is answered 401 and issues no upstream call, in  *)
(* every limiter state.                                                    *)
(***************************************************************************)
C1_BadSecretAlways401 ==
    [][(GenerateHandled /\ WellFormed(last'.body) /\ BadSecret(last'.body))
        => (last'.status = 401 /\ pending' = pending)]_vars

(***************************************************************************)
(* C1 (amended): a well-formed POST /generate request whose secret is not  *)
(* the configured one issues no upstream call; it is answered 401 with the *)
(* authentication detail while its client is within quota and 429 once     *)
(* the client's counter has reached the quota.                             *)
(***************************************************************************)
C1_BadSecretRejected ==
    [][(GenerateHandled /\ WellFormed(last'.body) /\ BadSecret(last'.body))
        => /\ pending' = pending
           /\ IF ReachedQuota(GenKey(last'.ident))
              THEN last'.status = 429
              ELSE last'.status = 401 /\ last'.detail = AuthDetail]_vars

C1_Witness ==
    /\ last.op = "generate"
    /\ WellFormed(last.body) /\ BadSecret(last.body)
    /\ last.status = 401
    /\ storage[GenKey(last.ident)] = GenerateQuota

(***************************************************************************)
(* C3: an upstream call is issued only by a step that handles a request    *)
(* which passed the schema, whose secret is the configured one and whose   *)
(* client was within quota when the limiter counted it; every call being   *)
(* awaited belongs to such a request.                                      *)
(***************************************************************************)
C3_CallOnlyAfterBothChecks ==
    [][CallIssued
        => /\ last'.op = "generate"
           /\ WellFormed(last'.body)
           /\ last'.body.secret.s = API_SECRET
           /\ ~ReachedQuota(GenKey(last'.ident))
           /\ storage'[GenKey(last'.ident)] = InWindow(GenKey(last'.ident)) + 1
           /\ storage'[GenKey(last'.ident)] <= GenerateQuota]_vars

C3_Witness ==
    /\ \E i \in Slots : pending[i].busy
    /\ last.op = "generate"
    /\ last.called
    /\ last.body.conversation_history = JMissing
    /\ storage[GenKey(last.ident)] = GenerateQuota

(***************************************************************************)
(* C4 (as stated): every response to a valid, authorized, allowed request  *)
(* is 200 with a non-empty generated_text.                                 *)
(***************************************************************************)
C4_AlwaysSuccess ==
    last.op = "relay" => (last.status = 200 /\ last.text # <<>>)

(***************************************************************************)
(* C4 (amended): when the upstream call of a valid, authorized, allowed    *)
(* request returns a response whose first choice carries a message, the    *)
(* response is 200 with a non-empty generated_text, the placeholder when   *)
(* the upstream content is absent or blank; when the call raises or        *)
(* returns no such choice, the response is 500 and carries no text.        *)
(***************************************************************************)
C4_SuccessShape ==
    last.op = "relay" =>
        IF last.reply.kind = "response" /\ last.reply.choices > 0 /\ last.reply.message
        THEN /\ last.status = 200
             /\ last.text # <<>>
             /\ (last.reply.content.t = "none" => last.text = Placeholder)
             /\ (last.reply.content.t = "str" /\ AllSpace(last.reply.content.s)
                   => last.text = Placeholder)
        ELSE last.status = 500 /\ last.text = <<>>

C4_Witness ==
    /\ last.op = "relay"
    /\ last.status = 200
    /\ last.reply.content = StrContent(<<" ", "\n">>)
    /\ last.text = Placeholder

(***************************************************************************)
(* C5: the messages handed to the upstream call are the history turns in   *)
(* order followed by the prompt, all with role "user"; an absent (or null) *)
(* history counts as empty.                                                *)
(***************************************************************************)
SentHistory(b) ==
    IF b.conversation_history.t = "list" THEN b.conversation_history.l ELSE <<>>

C5_MessagesInOrder ==
    (last.op = "generate" /\ last.called) =>
        LET h == SentHistory(last.body)
            m == last.messages
        IN /\ Len(m) = Len(h) + 1
           /\ \A i \in 1..Len(h) : m[i].content = h[i]
           /\ m[Len(m)].content = last.body.prompt.s
           /\ \A i \in 1..Len(m) : m[i].role = "user"

C5_Witness ==
    /\ last.op = "generate"
    /\ last.called
    /\ last.body.conversation_history = JList(<<"B", "A", "B">>)
    /\ Len(last.messages) = 4

(***************************************************************************)
(* C6: absent content gives the placeholder; a string gives itself without *)
(* its leading and trailing whitespace; a sequence gives its items' texts  *)
(* in order with one space between neighbours, then trimmed; a blank       *)
(* result is replaced by the placeholder, so generated_text is never       *)
(* empty.  Trimming and joining are stated by position, not by the         *)
(* operators of the model.                                                 *)
(***************************************************************************)
\* t is s without its leading and trailing whitespace
IsTrimOf(t, s) ==
    \E i \in 1..(Len(s) + 1) : \E j \in (i - 1)..Len(s) :
        /\ t = SubSeq(s, i, j)
        /\ \A k \in 1..(i - 1) : s[k] \in Whitespace
        /\ \A k \in (j + 1)..Len(s) : s[k] \in Whitespace
        /\ i <= j => (s[i] \notin Whitespace /\ s[j] \notin Whitespace)

\* where part k starts in the joined text, counting from 0
RECURSIVE Offset(_, _)
Offset(parts, k) ==
    IF k = 1 THEN 0 ELSE Offset(parts, k - 1) + Len(parts[k - 1]) + 1

\* t is the trimmed join of parts
IsTrimmedJoinOf(t, parts) ==
    LET n == Len(parts)
        total == IF n = 0 THEN 0 ELSE Offset(parts, n) + Len(parts[n])
        joined == [p \in 1..total |->
                     LET k == CHOOSE k \in 1..n :
                                Offset(parts, k) < p /\ p <= Offset(parts, k) + Len(parts[k]) + 1
                     IN IF p - Offset(parts, k) <= Len(parts[k])
                        THEN parts[k][p - Offset(parts, k)]
                        ELSE " "]
    IN IsTrimOf(t, joined)

NormalizedFrom(text, content) ==
    LET isText(t) ==
            CASE content.t = "none" -> t = <<>>
              [] content.t = "str" -> IsTrimOf(t, content.s)
              [] content.t = "list" -> IsTrimmedJoinOf(t, ItemParts(content.items))
              [] OTHER -> TRUE
    IN \/ text # Placeholder /\ isText(text)
       \/ text = Placeholder /\ (isText(<<>>) \/ isText(Placeholder))

HiThere == ListContent(<<Item(Attr(PyVal(Hi)), NoAttr), Item(Attr(PyVal(There)), NoAttr)>>)

C6_Normalized ==
    (last.op = "relay" /\ last.status = 200) =>
        /\ last.text # <<>>
        /\ NormalizedFrom(last.text, last.reply.content)
        /\ last.reply.content = HiThere
             => last.text = <<"H", "i", " ", "t", "h", "e", "r", "e">>

C6_Witness ==
    /\ last.op = "relay"
    /\ last.reply.content = HiThere
    /\ last.text = <<"H", "i", " ", "t", "h", "e", "r", "e">>

(***************************************************************************)
(* C7: when the upstream call raises, returns no choice or returns a       *)
(* choice without a message, the request ends with status 500 whose detail *)
(* is the text of the failure, and with no generated text; the awaiting    *)
(* handler always ends with a response.                                    *)
(***************************************************************************)
C7_FailureIs500 ==
    last.op = "relay" =>
        /\ last.status \in {200, 500}
        /\ (last.reply.kind = "raise" \/ last.reply.choices = 0 \/ ~last.reply.message)
             => /\ last.status = 500
                /\ last.text = <<>>
                /\ last.reply.kind = "raise" => last.detail = last.reply.detail
                /\ last.reply.kind # "raise" => last.detail # ""

C7_Witness ==
    /\ last.op = "relay"
    /\ last.reply = Response(0, FALSE, NoContent)
    /\ last.status = 500
    /\ last.detail = "list index out of range"

(***************************************************************************)
(* C8: a POST /generate request whose body is not valid JSON, lacks the    *)
(* prompt or the secret, or carries a conversation_history that is not a   *)
(* list, is answered 422 whatever its secret; it issues no upstream call   *)
(* and leaves the limiter as it was.                                       *)
(***************************************************************************)
Malformed(b) ==
    \/ ~b.json
    \/ b.prompt.t = "missing"
    \/ b.secret.t = "missing"
    \/ b.conversation_history.t = "str"

C9_GuardBeforeLimiter ==
    [][(GenerateHandled /\ last'.status = 401) => storage' = storage]_vars

(***************************************************************************)
(* C9 (amended): the stages run in the order rate limiter, access guard,   *)
(* completion relay, each short-circuiting the ones after it: every        *)
(* well-formed request is counted, whatever its secret; over quota it is   *)
(* answered 429 without the secret being looked at; within quota an        *)
(* incorrect secret is answered 401 and only a correct one issues the      *)
(* upstream call.                                                          *)
(***************************************************************************)
C9_LimiterBeforeGuard ==
    [][(GenerateHandled /\ WellFormed(last'.body))
        => LET key == GenKey(last'.ident)
           IN /\ storage'[key] = InWindow(key) + 1
              /\ ReachedQuota(key) => (last'.status = 429 /\ ~CallIssued)
              /\ (~ReachedQuota(key) /\ BadSecret(last'.body))
                   => (last'.status = 401 /\ ~CallIssued)
              /\ (~ReachedQuota(key) /\ ~BadSecret(last'.body)) => CallIssued]_vars

C9_Witness ==
    /\ last.op = "generate"
    /\ BadSecret(last.body)
    /\ last.status = 429
    /\ storage[GenKey(last.ident)] = GenerateQuota + 1

(***************************************************************************)
(* C2 (as stated): a request to either route whose client's counter for    *)
(* that route has reached the quota (10 for /generate, 60 for /) inside    *)
(* the current window is answered 429, whatever else the request holds.    *)
(***************************************************************************)
RequestHandled ==
    /\ last'.op \in {"generate", "root"}
    /\ <<last, storage, expirations, pending>>' # <<last, storage, expirations, pending>>

RouteKey(l) == <<IF l.op = "root" THEN "root" ELSE "generate", l.ident>>

AtQuota(l) == InWindow(RouteKey(l)) >= (IF l.op = "root" THEN 60 ELSE 10)

C2_OverQuotaAlways429 ==
    [][(RequestHandled /\ AtQuota(last')) => last'.status = 429]_vars

(***************************************************************************)
(* C2 (amended): a request to either route whose client's counter for that *)
(* route has reached the quota (10 for /generate, 60 for /) inside the     *)
(* current window is answered 429 whatever its secret, prompt and history, *)
(* provided its body passes the schema; a /generate body that fails the    *)
(* schema is answered 422 also over quota.                                 *)
(***************************************************************************)
C2_OverQuota429 ==
    [][(RequestHandled /\ AtQuota(last'))
        => IF last'.op = "generate" /\ ~WellFormed(last'.body)
           THEN last'.status = 422
           ELSE last'.status = 429]_vars

C2_Witness ==
    /\ last.op = "root"
    /\ last.status = 429
    /\ InWindow(<<"root", last.ident>>) = RootQuota + 1
    /\ InWindow(GenKey(last.ident)) = GenerateQuota + 1

(***************************************************************************)
(* C10 (as stated): the 11th well-formed /generate request of a client     *)
(* that falls within one minute of the ten before it is answered 429,      *)
(* wherever the eleven fall relative to the limiter's windows.             *)
(***************************************************************************)
C10_EleventhInAMinute429 ==
    [][(GenerateHandled /\ WellFormed(last'.body)
          /\ Len(recent[last'.ident]) = 10
          /\ now - recent[last'.ident][1] < 60)
        => last'.status = 429]_vars

(***************************************************************************)
(* C10 (amended): the 11th well-formed /generate request of a client that  *)
(* falls in the same limiter window as the ten well-formed requests before *)
(* it is answered 429; the window is the minute that starts with the first *)
(* request counted after the previous window ended.                        *)
(***************************************************************************)
C10_EleventhInWindow429 ==
    [][(GenerateHandled /\ WellFormed(last'.body)
          /\ Len(recent[last'.ident]) = 10
          /\ now < expirations[GenKey(last'.ident)]
          /\ recent[last'.ident][1] >= expirations[GenKey(last'.ident)] - 60)
        => last'.status = 429]_vars

C10_Witness ==
    /\ last.op = "generate"
    /\ last.status = 429
    /\ Len(recent[last.ident]) = 10
    /\ recent[last.ident][1] > 0
    /\ now = recent[last.ident][1]

(***************************************************************************)
(* C11 (as stated): the generated_text of a 200 response holds at most the *)
(* first 10 whitespace-separated words of the upstream text, joined by     *)
(* single spaces, and is "No response generated" when there is no word.    *)
(***************************************************************************)
C11_FirstTenWords ==
    (last.op = "relay" /\ last.status = 200 /\ last.reply.content.t = "str") =>
        LET words == Words(last.reply.content.s)
            kept == IF Len(words) <= 10 THEN words ELSE SubSeq(words, 1, 10)
        IN last.text =
             IF kept = <<>>
             THEN <<"N","o"," ","r","e","s","p","o","n","s","e"," ",
                    "g","e","n","e","r","a","t","e","d">>
             ELSE Join(kept)

(***************************************************************************)
(* C11 (amended): nothing is cut and nothing is collapsed.  The            *)
(* generated_text of a 200 response holds every word of the upstream       *)
(* text, in order, all 15 of a 15-word response; for a string content it   *)
(* is that string without its leading and trailing whitespace, the         *)
(* whitespace between its words kept as it came; when there is no word it  *)
(* is the placeholder "No content generated".                              *)
(***************************************************************************)
\* the words of the upstream content, item by item
RECURSIVE ItemWords(_)
ItemWords(items) ==
    IF items = <<>> THEN <<>>
    ELSE Words(ItemText(Head(items))) \o ItemWords(Tail(items))

ContentWords(content) ==
    CASE content.t = "none" -> <<>>
      [] content.t = "str" -> Words(content.s)
      [] content.t = "list" -> ItemWords(content.items)
      [] OTHER -> Words(content.repr)

C11_FullText ==
    (last.op = "relay" /\ last.status = 200) =>
        LET words == ContentWords(last.reply.content)
        IN IF words = <<>>
           THEN last.text = Placeholder
           ELSE /\ Words(last.text) = words
                /\ last.reply.content.t = "str" => IsTrimOf(last.text, last.reply.content.s)

C11_Witness ==
    /\ last.op = "relay"
    /\ last.status = 200
    /\ last.reply.content = StrContent(Fifteen)
    /\ Len(Words(last.text)) = 15
    /\ last.text = SubSeq(Fifteen, 1, Len(Fifteen) - 1)

(***************************************************************************)
(* C12: every limiter check adds exactly one to the counter of the         *)
(* request's route and identity, and to no other, whether the request is   *)
(* allowed or denied: a request answered 429 is counted too, so the        *)
(* counter of a window goes past the quota.                                *)
(***************************************************************************)
C12_EveryCheckCounts ==
    [][(RequestHandled /\ (last'.op = "generate" => WellFormed(last'.body)))
        => LET key == RouteKey(last')
           IN /\ storage'[key] = InWindow(key) + 1
              /\ \A k \in Keys \ {key} : storage'[k] = storage[k]
              /\ last'.status = 429 => storage'[key] > Quota(key[1])]_vars

C12_Witness ==
    /\ last.op = "generate"
    /\ WellFormed(last.body)
    /\ ~BadSecret(last.body)
    /\ last.status = 429
    /\ now < expirations[GenKey(last.ident)]
    /\ storage[GenKey(last.ident)] = GenerateQuota + 1

(***************************************************************************)
(* C13: a check made after the end of the window of its route and identity *)
(* starts a new window: the counter becomes 1, the window ends one window  *)
(* length after the time of the check, and the request is not answered     *)
(* 429, whatever the counter of the ended window was, past the quota       *)
(* included.                                                               *)
(***************************************************************************)
C13_WindowReset ==
    [][(GenerateHandled /\ WellFormed(last'.body))
        => LET key == GenKey(last'.ident)
           IN (expirations[key] > 0 /\ now > expirations[key])
                => /\ storage'[key] = 1
                   /\ expirations'[key] = now + WindowSeconds
                   /\ last'.status # 429
                   /\ BadSecret(last'.body) \/ CallIssued]_vars

\* a client denied in the window that ended is served in the next one
C13_Witness ==
    /\ last.op = "generate"
    /\ last.found = GenerateQuota + 1
    /\ last.called
    /\ storage[GenKey(last.ident)] = 1
    /\ expirations[GenKey(last.ident)] = now + WindowSeconds
    /\ now > WindowSeconds

(***************************************************************************)
(* C14: the two routes count apart.  A request to one route leaves the     *)
(* counter and the window of its client on the other route as they were,   *)
(* and a request is answered 429 only when the counter of its own route    *)
(* has reached that route's quota, wherever the other counter stands.      *)
(***************************************************************************)
OtherRoute(key) == <<IF key[1] = "root" THEN "generate" ELSE "root", key[2]>>

C14_RoutesCountApart ==
    [][RequestHandled
        => LET key == RouteKey(last')
           IN /\ storage'[OtherRoute(key)] = storage[OtherRoute(key)]
              /\ expirations'[OtherRoute(key)] = expirations[OtherRoute(key)]
              /\ last'.status = 429 => ReachedQuota(key)
              /\ (~ReachedQuota(key) /\ last'.op = "root") => last'.status = 200]_vars

\* GET / is served to a client that is over quota on POST /generate
C14_Witness ==
    /\ last.op = "root"
    /\ last.status = 200
    /\ InWindow(<<"root", last.ident>>) = 1
    /\ InWindow(GenKey(last.ident)) = GenerateQuota + 1

(***************************************************************************)
(* C15: the identity a request is counted under is the first               *)
(* comma-separated element of its X-Forwarded-For header without its       *)
(* leading and trailing whitespace when that header is non-empty, else its *)
(* X-Real-IP header when non-empty, else its peer address.  A request      *)
(* moves the /generate counter of that identity and of no other, whatever  *)
(* its peer address, and it is answered 429 exactly when that counter has  *)
(* reached the quota, wherever the other client's counter stands.          *)
(***************************************************************************)
\* id is the first comma-separated element of v, trimmed
IsFirstElementOf(id, v) ==
    \E n \in 0..Len(v) :
        /\ n = Len(v) \/ v[n + 1] = ","
        /\ \A k \in 1..n : v[k] # ","
        /\ IsTrimOf(id, SubSeq(v, 1, n))

ResolvesTo(conn, id) ==
    IF conn.xff.present /\ conn.xff.value # <<>> THEN IsFirstElementOf(id, conn.xff.value)
    ELSE IF conn.xri.present /\ conn.xri.value # <<>> THEN id = conn.xri.value
    ELSE id = conn.peer

CheckedInWindow(id) ==
    Cardinality({ i \in 1..Len(recent[id]) :
                    recent[id][i] >= expirations[GenKey(id)] - WindowSeconds })

Awaited(id) == { i \in Slots : pending[i].busy /\ pending[i].ident = id }

Issued == { i \in Slots : pending'[i].busy /\ ~pending[i].busy }
Ended == { i \in Slots : pending[i].busy /\ ~pending'[i].busy }

C17_NoRetry ==
    /\ [](\A i \in Slots :
            pending[i].calls = (IF pending[i].busy THEN 1 ELSE 0))
    /\ [][GenerateHandled
           => /\ Ended = {}
              /\ Cardinality(Issued) =
                   (IF /\ WellFormed(last'.body)
                       /\ ~ReachedQuota(GenKey(last'.ident))
                       /\ ~BadSecret(last'.body)
                    THEN 1 ELSE 0)]_vars
    /\ [][(last'.op = "relay" /\ pending' # pending)
           => /\ Issued = {}
              /\ Cardinality(Ended) = 1
              /\ \A i \in Slots \ Ended : pending'[i] = pending[i]
              /\ last'.status \in {200, 500}
              /\ last'.reply.kind = "raise"
                   => (last'.status = 500 /\ last'.detail = last'.reply.detail)]_vars

\* the only call of the only request has failed and nothing is awaited
C17_Witness ==
    /\ last.op = "relay"
    /\ last.reply = Raise("Connection error.")
    /\ last.status = 500
    /\ last.detail = "Connection error."
    /\ \A i \in Slots : ~pending[i].busy
    /\ storage[GenKey(last.ident)] = 1

(***************************************************************************)
(* C18: each item of a list content gives one part of the joined text: the *)
(* string of its attribute text when it has one, whether or not it has a   *)
(* content too; else the string of its attribute content; else str(item),  *)
(* which for an item that is a string is the string and for a mapping,     *)
(* which has keys and no attributes, its printed form.  The text is the    *)
(* trimmed join of as many parts as there are items.                       *)
(***************************************************************************)
FieldText(item) ==
    IF item.text.has THEN PyStr(item.text.val)
    ELSE IF item.content.has THEN PyStr(item.content.val)
    ELSE item.repr

C18_ItemPriority ==
    (last.op = "relay" /\ last.status = 200 /\ last.reply.content.t = "list") =>
        LET items == last.reply.content.items
            parts == [i \in 1..Len(items) |-> FieldText(items[i])]
        IN \/ IsTrimmedJoinOf(last.text, parts)
           \/ last.text = Placeholder /\ IsTrimmedJoinOf(<<>>, parts)

C18_Witness ==
    /\ last.op = "relay"
    /\ last.status = 200
    /\ last.reply.content =
         ListContent(<<Item(Attr(PyVal(There)), Attr(PyVal(Hi))), StrItem(Hi)>>)
    /\ last.text = <<"t", "h", "e", "r", "e", " ", "H", "i">>

(***************************************************************************)
(* C19: the limiter's state is written by the check and by nothing after   *)
(* it.  The step that handles a well-formed request leaves the counters    *)
(* and windows as the check alone makes them, the same whether the request *)
(* is then rejected for its secret or issues the upstream call; the step   *)
(* in which an awaited call ends, in a result, in a failure or abandoned   *)
(* because the caller went away, leaves them unchanged.                    *)
(***************************************************************************)
C19_LimiterWrittenByCheckOnly ==
    /\ [][(GenerateHandled /\ WellFormed(last'.body))
           => LET key == GenKey(last'.ident)
              IN /\ storage' = [storage EXCEPT ![key] = InWindow(key) + 1]
                 /\ expirations' =
                      [expirations EXCEPT
                         ![key] = IF InWindow(key) = 0 THEN now + WindowSeconds ELSE @]]_vars
    /\ [][(last'.op \in {"relay", "disconnect"} /\ pending' # pending)
           => (storage' = storage /\ expirations' = expirations)]_vars

\* a call is abandoned and the client's counter stays at the quota
C19_Witness ==
    /\ last.op = "disconnect"
    /\ \A i \in Slots : ~pending[i].busy
    /\ now < expirations[GenKey(last.ident)]
    /\ storage[GenKey(last.ident)] = GenerateQuota

====
